---------------------------- MODULE Spec2Model ----------------------------
(***************************************************************************)
(* A model of the guild bank of dndbot (src/src/cogs/bank.py): the ledger  *)
(* of transaction records, the engine operation process_transaction, the   *)
(* derived balance, and the chat commands that call them; and of the       *)
(* Management cog (src/src/cogs/management.py): the error listener, the    *)
(* error log, the presence and the extension commands.                     *)
(*                                                                         *)
(* Strings the code inspects character by character (the transaction      *)
(* string, the module names) are sequences of one-character strings.  A    *)
(* column that holds None is the empty sequence <<>>, a column that holds  *)
(* the integer n is the one-element sequence <<n>>.                        *)
(*                                                                         *)
(* The bot runs its command handlers as coroutines of one asyncio event    *)
(* loop: control passes from one handler to another only at an await.     *)
(* Every handler of the bank does all of its ledger accesses between two   *)
(* awaits, so each is one atomic action.  A handler of the Management cog  *)
(* that writes after an await is two actions, with the suspended handler   *)
(* kept in awaiting in between.                                            *)
(*                                                                         *)
(* Spec is the bank with all its commands.  SpecParsing applies            *)
(* process_transaction to a wider set of transaction strings, SpecHistory  *)
(* applies print_log to ledgers of up to MaxLogId rows with every start    *)
(* and num, SpecTransfers runs up to MaxTransfers transfers of one copper  *)
(* with confirms and balance reads.  SpecErrors and SpecExtensions are the *)
(* Management cog: its error log and presence, and its extensions.         *)
(***************************************************************************)
EXTENDS Integers, Sequences, FiniteSets, TLC

VARIABLES
    ledger,     \* the rows of the transaction table: a set of records, one per _id
    nextId,     \* the _id the store assigns to the next row it creates
    clock,      \* the UTC instant datetime.now() returns
    attempts,   \* history: for each non-self creation that persisted its first
                \* row, the _id of that row and of its mirror (0: never created)
    last,       \* the handler that ran last: what it was handed, how it ended,
                \* the _ids of the rows it created, and what it sent
    last_errors,    \* client.last_errors: the error log, oldest entry first
    presence,       \* the activity the bot shows
    extensions,     \* the keys of client.extensions, in the order of the dict
    awaiting        \* the handlers of the Management cog suspended at an await
                    \* with writes still to do, in the order they suspended

\* The variables the Management cog works on.
management == <<last_errors, presence, extensions, awaiting>>

vars == <<ledger, nextId, clock, attempts, last, last_errors, presence,
          extensions, awaiting>>

-----------------------------------------------------------------------------
(* Bounds and input domains *)

\* The number of rows the store creates in one behaviour.
MaxId == 2

\* ctx.author.id of the callers; the administrators among them.
Users == {1}
Admins == {1}

\* Account numbers: 0 is the bank, the others are the users' own accounts.
BANK == 0
Accounts == {BANK} \cup Users

\* description arguments: missing (None or '') and present.
NoDescription == ""
Descriptions == {NoDescription, "Donation"}

\* transaction_string arguments.
NoString == <<>>
TransactionStrings ==
    { NoString,
      <<"2", "g", ",", "-", "5", "s">>,     \* 2g,-5s
      <<"2", "g", ",", "5", "5">>,          \* 2g,55 : second entry has no letter
      <<"2", "g", ",", "s">>,               \* 2g,s  : second entry has no number
      <<"2", "x">> }                         \* 2x    : a character outside the set


-----------------------------------------------------------------------------
(* The currencies and the parsing of a transaction string *)

CURRENCIES == <<"platinum", "gold", "electrum", "silver", "copper">>

\* tuple(s[0] for s in CURRENCIES)
CURRENCIES_SHORT == <<"p", "g", "e", "s", "c">>

Range(f) == {f[i] : i \in DOMAIN f}

None == <<>>
Some(n) == <<n>>

\* Python's `x or 0` and the truth value of a column.
OrZero(x) == IF x = None THEN 0 ELSE x[1]
Truthy(x) == x # None /\ x[1] # 0

Digits == {"0", "1", "2", "3", "4", "5", "6", "7", "8", "9"}

DigitValue(c) ==
    CASE c = "0" -> 0 [] c = "1" -> 1 [] c = "2" -> 2 [] c = "3" -> 3
      [] c = "4" -> 4 [] c = "5" -> 5 [] c = "6" -> 6 [] c = "7" -> 7
      [] c = "8" -> 8 [] c = "9" -> 9

\* The characters process_transaction lets through: ',+-1234567890' and the
\* five currency letters.
AllowedChars == {",", "+", "-"} \cup Digits \cup Range(CURRENCIES_SHORT)

\* The first character of the string the check rejects, as the loop finds it;
\* <<>> when every character passes.
RECURSIVE FirstInvalidChar(_)
FirstInvalidChar(s) ==
    IF s = <<>> THEN <<>>
    ELSE IF Head(s) \notin AllowedChars THEN <<Head(s)>>
    ELSE FirstInvalidChar(Tail(s))

\* str.split(','): the pieces between the commas, empty pieces included.
RECURSIVE SplitFrom(_, _)
SplitFrom(s, piece) ==
    IF s = <<>> THEN <<piece>>
    ELSE IF Head(s) = "," THEN <<piece>> \o SplitFrom(Tail(s), <<>>)
    ELSE SplitFrom(Tail(s), Append(piece, Head(s)))

Split(s) == SplitFrom(s, <<>>)

\* coinstring[:-1] and coinstring[-1:]
AllButLast(s) == IF s = <<>> THEN <<>> ELSE SubSeq(s, 1, Len(s) - 1)
LastChar(s) == IF s = <<>> THEN <<>> ELSE <<s[Len(s)]>>

\* int(s) for the strings that reach it: an optional sign, then one or more
\* digits; anything else raises ValueError.
Unsigned(s) ==
    IF s # <<>> /\ Head(s) \in {"+", "-"} THEN Tail(s) ELSE s

IsInt(s) ==
    /\ Unsigned(s) # <<>>
    /\ \A i \in DOMAIN Unsigned(s) : Unsigned(s)[i] \in Digits

RECURSIVE DecimalValue(_)
DecimalValue(d) ==
    IF d = <<>> THEN 0
    ELSE 10 * DecimalValue(AllButLast(d)) + DigitValue(d[Len(d)])

\* An int() that reads the digits and drops the sign.
IntOf_dropping_sign(s) == DecimalValue(Unsigned(s))

IntOf(s) ==
    IF Head(s) = "-" THEN 0 - DecimalValue(Unsigned(s)) ELSE DecimalValue(Unsigned(s))

\* CURRENCIES[CURRENCIES_SHORT.index(currency)]
CurrencyOf(letter) ==
    CURRENCIES[CHOOSE i \in DOMAIN CURRENCIES_SHORT : CURRENCIES_SHORT[i] = letter]

-----------------------------------------------------------------------------
(* The store: TransactionDB and the TransactionData rows *)

\* TransactionDB.create_new: the row the store persists and hands back, with
\* the _id the store assigned.  The five coin columns are passed as None.
create_new(id, date, user_id, receiver_id, sender_id, description, confirmed) ==
    [ _id |-> id, date |-> date, user_id |-> user_id,
      receiver_id |-> receiver_id, sender_id |-> sender_id,
      description |-> description, confirmed |-> confirmed,
      platinum |-> None, electrum |-> None, gold |-> None,
      silver |-> None, copper |-> None ]

getattr(transaction, column) == transaction[column]
setattr(transaction, column, value) == [transaction EXCEPT ![column] = value]

\* How a call of the store ends: it works, or the first or the second
\* create_new of the call raises a storage error.
Storage == {"ok", "first_fails", "second_fails"}

\* TransactionDB.query_all(receiver_id=..., confirmed=...): the matching rows
\* in insertion order, which is the order of their _id.
RECURSIVE InIdOrder(_)
InIdOrder(rows) ==
    IF rows = {} THEN <<>>
    ELSE LET first == CHOOSE r \in rows : \A q \in rows : r._id <= q._id
         IN  <<first>> \o InIdOrder(rows \ {first})

query_all(rows, receiver_id, confirmed) ==
    InIdOrder({r \in rows : r.receiver_id = receiver_id /\ r.confirmed = confirmed})

Ids(rows) == {r._id : r \in rows}
Row(rows, id) == CHOOSE r \in rows : r._id = id

-----------------------------------------------------------------------------
(* Bank.get_balance *)

\* A loop that assigns where get_balance adds: the last row wins.
AddCoins_keeping_last(coins, transaction) ==
    [c \in Range(CURRENCIES) |-> OrZero(getattr(transaction, c))]

\* The inner loop of get_balance: coins[c] += getattr(transaction, c) or 0
AddCoins(coins, transaction) ==
    [c \in Range(CURRENCIES) |-> coins[c] + OrZero(getattr(transaction, c))]

RECURSIVE SumCoins(_, _)
SumCoins(coins, transactions) ==
    IF transactions = <<>> THEN coins
    ELSE SumCoins(AddCoins(coins, Head(transactions)), Tail(transactions))

\* get_balance without confirmed=True in its query: pending rows count too.
get_balance_counting_pending(rows, account) ==
    SumCoins([c \in Range(CURRENCIES) |-> 0],
             query_all(rows, account, TRUE) \o query_all(rows, account, FALSE))

get_balance(rows, account) ==
    SumCoins([c \in Range(CURRENCIES) |-> 0], query_all(rows, account, TRUE))

-----------------------------------------------------------------------------
(* Bank.process_transaction *)

\* The loop over the comma separated entries (lines 102-109).  Each entry is
\* converted with int() and written to the row before the next entry is
\* looked at; the loop stops at the first entry that int() rejects
\* (ValueError) or whose last character is no currency letter.
RECURSIVE SetAmounts(_, _)
SetAmounts(transaction, split) ==
    IF split = <<>> THEN [transaction |-> transaction, error |-> "none"]
    ELSE LET coinstring == Head(split)
             currency   == LastChar(coinstring)
         IN  IF ~IsInt(AllButLast(coinstring))
             THEN [transaction |-> transaction, error |-> "ValueError"]
             ELSE IF currency = <<>> \/ currency[1] \notin Range(CURRENCIES_SHORT)
             THEN [transaction |-> transaction, error |-> "InvalidCurrency"]
             ELSE SetAmounts(
                      setattr(transaction, CurrencyOf(currency[1]),
                              Some(IntOf(AllButLast(coinstring)))),
                      Tail(split))

\* Lines 125-128: the amounts of the second row.
RECURSIVE NegateInto(_, _, _)
NegateInto(transaction2, transaction, currencies) ==
    IF currencies = <<>> THEN transaction2
    ELSE LET currency == Head(currencies)
             amount   == getattr(transaction, currency)
         IN  NegateInto(
                 IF Truthy(amount)
                 THEN setattr(transaction2, currency, Some(amount[1] * (0 - 1)))
                 ELSE transaction2,
                 transaction, Tail(currencies))

\* A second row that copies the amounts without the factor -1.
Mirror_keeping_sign(transaction, id, date, user_id, sender_id, description, confirm) ==
    [c \in DOMAIN transaction |->
        IF c \in Range(CURRENCIES)
        THEN getattr(transaction, c)
        ELSE create_new(id, date, user_id, sender_id, sender_id, description, confirm)[c]]

\* Lines 112-128: the second row of a transaction between two accounts.
Mirror(transaction, id, date, user_id, sender_id, description, confirm) ==
    NegateInto(
        create_new(id, date, user_id, sender_id, sender_id, description, confirm),
        transaction, CURRENCIES)

\* A check that looks at the transaction string alone.
Unprovided_string_only(transaction_string, description) ==
    transaction_string = NoString

\* Line 77: not description or not transaction_string
Unprovided(transaction_string, description) ==
    description = NoDescription \/ transaction_string = NoString

\* What one call of process_transaction does: how it ends, the rows it has
\* left in the store when it ends, and the instant of its last clock read.
\* now2 is what the second datetime.now() returns.
ProcessTransaction(author, transaction_string, description, sender_id, receiver_id, confirm, id, now, now2, storage) ==
    LET nothing == [outcome |-> "MissingField", rows |-> <<>>, clock |-> now]
        first   == create_new(id, now, author, receiver_id, sender_id,
                              description, confirm)
        parsed  == SetAmounts(first, Split(transaction_string))
        second  == Mirror(parsed.transaction, id + 1, now2, author, sender_id,
                          description, confirm)
    IN  IF Unprovided(transaction_string, description)
        THEN nothing
        ELSE IF FirstInvalidChar(transaction_string) # <<>>
        THEN [nothing EXCEPT !.outcome = "InvalidCharacter"]
        ELSE IF storage = "first_fails"
        THEN [nothing EXCEPT !.outcome = "StorageFailure"]
        ELSE IF parsed.error # "none"
        THEN [outcome |-> parsed.error, rows |-> <<parsed.transaction>>, clock |-> now]
        ELSE IF sender_id = receiver_id
        THEN [outcome |-> "TransactionAdded", rows |-> <<parsed.transaction>>,
              clock |-> now]
        ELSE IF storage = "second_fails"
        THEN [outcome |-> "StorageFailure", rows |-> <<parsed.transaction>>,
              clock |-> now2]
        ELSE [outcome |-> "TransactionAdded",
              rows |-> <<parsed.transaction, second>>, clock |-> now2]

\* Whether the call gets as far as the store (lines 77-84 let it through).
ReachesStore(transaction_string, description) ==
    /\ ~Unprovided(transaction_string, description)
    /\ FirstInvalidChar(transaction_string) = <<>>

\* Whether the call persists a row.
Persists(transaction_string, description, storage) ==
    ReachesStore(transaction_string, description) /\ storage # "first_fails"

\* What the caller handed to a handler: None where it handed nothing.
Request(transaction_string, description, transaction_id, start, num, account_nr) ==
    [transaction_string |-> transaction_string, description |-> description,
     transaction_id |-> transaction_id, start |-> start, num |-> num,
     account_nr |-> account_nr]

NoRequest == Request(None, None, None, None, None, None)

\* One call of process_transaction with inputs drawn from the given sets.  An
\* input that cannot change what the call does is not varied: the accounts and
\* the confirm flag when no row is persisted, the second clock read when there
\* is no second row.
Call(strings, descriptions, senders, receivers, flags, storages, maxId) ==
    \E author \in Users, transaction_string \in strings,
       description \in descriptions :
      \E storage \in (IF ReachesStore(transaction_string, description)
                      THEN storages ELSE {"ok"}) :
        \E sender_id \in (IF Persists(transaction_string, description, storage)
                          THEN senders ELSE {BANK}),
           receiver_id \in (IF Persists(transaction_string, description, storage)
                            THEN receivers ELSE {BANK}),
           confirm \in (IF Persists(transaction_string, description, storage)
                        THEN flags ELSE {TRUE}) :
        \E later \in (IF /\ Persists(transaction_string, description, storage)
                         /\ storage = "ok"
                         /\ sender_id # receiver_id
                      THEN {0, 1} ELSE {0}) :
          LET done == ProcessTransaction(author, transaction_string, description,
                                         sender_id, receiver_id, confirm, nextId,
                                         clock, clock + later, storage)
              n    == Len(done.rows)
          IN  /\ Persists(transaction_string, description, storage) => nextId <= maxId
              /\ nextId + n <= maxId + 1
              /\ ledger' = ledger \cup Range(done.rows)
              /\ nextId' = nextId + n
              /\ clock' = done.clock
              /\ attempts' =
                     IF n > 0 /\ sender_id # receiver_id
                     THEN attempts \cup
                          {[primary |-> nextId,
                            mirror |-> IF n = 2 THEN nextId + 1 ELSE 0]}
                     ELSE attempts
              /\ UNCHANGED management
              /\ last' = [op |-> "process_transaction",
                          request |-> Request(transaction_string, description,
                                              None, None, None, None),
                          outcome |-> done.outcome,
                          created |-> [i \in DOMAIN done.rows |-> done.rows[i]._id],
                          reply |-> <<>>]

process_transaction ==
    Call(TransactionStrings, Descriptions, Accounts, Accounts, BOOLEAN, Storage, MaxId)

-----------------------------------------------------------------------------
(* The commands of the bank group (administrators only) *)

\* What a handler leaves behind when it has ended: what it was handed, how it
\* ended, the _ids of the rows it created, and what it sent.
Ended(op, request, outcome, reply) ==
    [op |-> op, request |-> request, outcome |-> outcome, created |-> <<>>,
     reply |-> reply]

\* +bank : print_balance(ctx, 0)
bank ==
    \E author \in Admins :
        /\ last' = Ended("bank", NoRequest, "balance", get_balance(ledger, BANK))
        /\ UNCHANGED <<ledger, nextId, clock, attempts, management>>

\* +bank add : the call of process_transaction passes four positional
\* arguments and confirm; receiver_id has no default, so Python raises
\* TypeError when the call is made and process_transaction does not start.
\* No argument of the command is read before that.
bank_add ==
    \E author \in Admins :
        /\ last' = Ended("bank_add", NoRequest, "TypeError", <<>>)
        /\ UNCHANGED <<ledger, nextId, clock, attempts, management>>

\* A delete that takes the row with the next _id along.
Delete_with_next(rows, transaction_id) ==
    {r \in rows : r._id \notin {transaction_id, transaction_id + 1}}

\* session.query(TransactionData).filter_by(_id=transaction_id).delete()
Delete(rows, transaction_id) == {r \in rows : r._id # transaction_id}

\* +bank delete
bank_delete ==
    \E author \in Admins, transaction_id \in 1..MaxId :
        /\ ledger' = Delete(ledger, transaction_id)
        /\ last' = Ended("bank_delete",
                         Request(None, None, Some(transaction_id), None, None, None),
                         "Success", <<>>)
        /\ UNCHANGED <<nextId, clock, attempts, management>>

\* A confirm that confirms the row with the next _id as well.
Confirm_with_next(rows, transaction_id) ==
    {IF r._id \in {transaction_id, transaction_id + 1}
     THEN [r EXCEPT !.confirmed = TRUE] ELSE r : r \in rows}

\* A confirm that flips the flag instead of setting it.
Confirm_flipping(rows, transaction_id) ==
    {IF r._id = transaction_id THEN [r EXCEPT !.confirmed = ~r.confirmed] ELSE r
        : r \in rows}

\* transaction = ...filter_by(_id=transaction_id).one(); transaction.confirmed = True
Confirm(rows, transaction_id) ==
    {IF r._id = transaction_id THEN [r EXCEPT !.confirmed = TRUE] ELSE r : r \in rows}

\* A confirm that reports success whether or not a row has the id.
ConfirmOutcome_never_raising(rows, transaction_id) == "confirmed"

\* .one() raises NoResultFound when no row has the id; otherwise the handler
\* reaches its last line and sends 'Transaction {id} confirmed'.
ConfirmOutcome(rows, transaction_id) ==
    IF transaction_id \in Ids(rows) THEN "confirmed" ELSE "NoResultFound"

\* +bank confirm with a transaction_id drawn from the given set.
ConfirmOf(transaction_ids) ==
    \E author \in Admins, transaction_id \in transaction_ids :
        /\ ledger' = Confirm(ledger, transaction_id)
        /\ last' = Ended("bank_confirm_transaction",
                         Request(None, None, Some(transaction_id), None, None, None),
                         ConfirmOutcome(ledger, transaction_id), <<>>)
        /\ UNCHANGED <<nextId, clock, attempts, management>>

bank_confirm_transaction == ConfirmOf(1..MaxId)

-----------------------------------------------------------------------------
(* Bank.print_log and the history commands *)

Min(a, b) == IF a <= b THEN a ELSE b

Reversed(s) == [i \in DOMAIN s |-> s[Len(s) + 1 - i]]

\* A Python slice s[from:to] with 0 <= from, 0 <= to.
Slice(s, from, to) == SubSeq(s, from + 1, Min(to, Len(s)))

\* filter_by(account_nr=account_nr): the rows of the account, that is the rows
\* whose receiver is the account.
filter_by_account_nr(rows, account_nr) == {r \in rows : r.receiver_id = account_nr}

\* A print_log without the final reversed(): the page newest first.
print_log_newest_first(rows, start, num, account_nr) ==
    Slice(Slice(Reversed(InIdOrder(filter_by_account_nr(rows, account_nr))),
                0, num + start),
          start, num + start)

\* A print_log that orders by _id ascending: the page counted from the oldest.
print_log_from_oldest(rows, start, num, account_nr) ==
    Slice(Slice(InIdOrder(filter_by_account_nr(rows, account_nr)), 0, num + start),
          start, num + start)

\* reversed(query.filter_by(account_nr=...).order_by(_id.desc())
\*          .limit(num+start).all()[start:num+start])
print_log(rows, start, num, account_nr) ==
    LET newestFirst == Reversed(InIdOrder(filter_by_account_nr(rows, account_nr)))
        limited     == Slice(newestFirst, 0, num + start)
    IN  Reversed(Slice(limited, start, num + start))

Starts == {0, 1}
Nums == {10}

\* One call of print_log with start and num drawn from the given sets.
Log(starts, nums, account_nrs) ==
    \E start \in starts, num \in nums, account_nr \in account_nrs :
        /\ last' = Ended("print_log",
                         Request(None, None, None, Some(start), Some(num),
                                 Some(account_nr)),
                         "log", print_log(ledger, start, num, account_nr))
        /\ UNCHANGED <<ledger, nextId, clock, attempts, management>>

\* +bank history [start] [num] [member]
bank_history == \E author \in Admins : Log(Starts, Nums, Accounts)

\* +account history [start] [num]
account_history == \E author \in Users : Log(Starts, Nums, {author})

-----------------------------------------------------------------------------
(* The commands of the account group *)

\* +account : the handler names UserData, which bank.py neither defines nor
\* imports, so Python raises NameError before print_balance is reached.
account ==
    \E author \in Users :
        /\ last' = Ended("account", NoRequest, "NameError", <<>>)
        /\ UNCHANGED <<ledger, nextId, clock, attempts, management>>

\* +account add : NameError on UserData, before process_transaction is called
\* and before any argument of the command is read.
account_add ==
    \E author \in Users :
        /\ last' = Ended("account_add", NoRequest, "NameError", <<>>)
        /\ UNCHANGED <<ledger, nextId, clock, attempts, management>>

\* +account send : '-' in transaction_string raises TypeError when the string
\* is missing (None); a string with a '-' is refused; every other call ends
\* in NameError on UserData.
account_send_money ==
    \E author \in Users, receiver \in Users, transaction_string \in TransactionStrings :
        /\ last' = Ended("account_send_money", NoRequest,
                         IF transaction_string = NoString THEN "TypeError"
                         ELSE IF "-" \in Range(transaction_string) THEN "OnlyPositive"
                         ELSE "NameError",
                         <<>>)
        /\ UNCHANGED <<ledger, nextId, clock, attempts, management>>

-----------------------------------------------------------------------------
(* The Management cog (src/src/cogs/management.py) *)

\* The number of entries the error log holds in one behaviour.
MaxErrors == 2

\* Module names are strings the code searches, so sequences of characters.
\* __name__ of the cog's module is 'cogs.management'.
ManagementName == <<"c", "o", "g", "s", ".", "m", "a", "n", "a", "g", "e", "m", "e", "n", "t">>
BankName == <<"c", "o", "g", "s", ".", "b", "a", "n", "k">>
DiceName == <<"c", "o", "g", "s", ".", "d", "i", "c", "e">>

\* What crawl_cogs finds under cogs/, in any order listdir returns it.
CogFiles == {ManagementName, BankName, DiceName}
CrawlOrders == {cogs \in [1..3 -> CogFiles] : Range(cogs) = CogFiles}

\* extension_name arguments: 'cogs', 'bank', 'management', 'Man' and 'all'.
All == <<"a", "l", "l">>
ExtensionNames == {<<"c", "o", "g", "s">>, <<"b", "a", "n", "k">>, <<"m", "a", "n", "a", "g", "e", "m", "e", "n", "t">>, <<"M", "a", "n">>}

\* The activities of lines 23-25; none is shown before the first
\* change_presence.
NoActivity == "none"
default_activity == "other Characters (+help)"
startup_error_activity == "Startup ERROR"
runtime_error_activity == "Runtime ERROR"

\* a in b, for two strings.
IsSubstring(a, b) ==
    \E i \in 0..(Len(b) - Len(a)) : SubSeq(b, i + 1, i + Len(a)) = a

\* str.lower() on the letters of the names above.
Lower(s) ==
    [i \in DOMAIN s |->
        CASE s[i] = "M" -> "m" [] s[i] = "B" -> "b" [] s[i] = "C" -> "c"
          [] OTHER -> s[i]]

\* for cog_name in names: if extension_name in cog_name: target = cog_name;
\* break.  The target stays unbound when no name matches.
Unbound == <<>>
FirstMatch(extension_name, names) ==
    LET hits == {i \in DOMAIN names : IsSubstring(extension_name, names[i])}
    IN  IF hits = {} THEN Unbound
        ELSE names[CHOOSE i \in hits : \A j \in hits : i <= j]

Remove(names, name) == SelectSeq(names, LAMBDA x : x # name)

\* The tuple (error, datetime.utcnow(), ctx) without its ctx.
Entry(error) == [error |-> error, date |-> clock]

\* What a handler of the cog was handed.
ManagementRequest(extension_name, error, n) ==
    [extension_name |-> extension_name, error |-> error, n |-> n]

NoManagementRequest == ManagementRequest(None, None, None)

\* A handler suspended at an await with writes still to do.
Suspended(handler, error) == [handler |-> handler, error |-> error]

\* The entries the suspended error handlers will append.
ToAppend ==
    Cardinality({i \in DOMAIN awaiting : awaiting[i].handler = "on_command_error"})

Without(s, i) == SubSeq(s, 1, i - 1) \o SubSeq(s, i + 1, Len(s))

\* Management.__init__ and the bot that constructed the cog: an empty error
\* log, no activity set, the cog's own extension and the bank loaded.
Constructed ==
    /\ last_errors = <<>>
    /\ presence = NoActivity
    /\ extensions = <<ManagementName, BankName>>
    /\ awaiting = <<>>

\* on_ready (lines 30-35)
on_ready ==
    LET unloaded == {x \in CogFiles :
                        /\ x \notin Range(extensions)
                        /\ ~IsSubstring(<<"e", "x", "t", "r", "a", ".">>, x)}
    IN  /\ presence' = IF unloaded # {} THEN startup_error_activity
                       ELSE default_activity
        /\ last' = Ended("on_ready", NoManagementRequest, "ready", <<>>)
        /\ UNCHANGED <<ledger, nextId, clock, attempts, last_errors, extensions,
                       awaiting>>

\* The classes of the errors the bot dispatches, each with its base class.
Bases ==
    [ CommandNotFound |-> "CommandError", CommandOnCooldown |-> "CommandError",
      MissingRequiredArgument |-> "UserInputError",
      CheckFailure |-> "CommandError", BadArgument |-> "UserInputError",
      NotOwner |-> "CheckFailure", TooManyArguments |-> "UserInputError",
      CommandInvokeError |-> "CommandError", UserInputError |-> "CommandError",
      CommandError |-> "Exception", Exception |-> "object" ]

Errors ==
    { "CommandNotFound", "CommandOnCooldown", "MissingRequiredArgument",
      "CheckFailure", "BadArgument", "NotOwner", "TooManyArguments",
      "CommandInvokeError" }

RECURSIVE isinstance(_, _)
isinstance(class, base) ==
    class = base \/ (class # "object" /\ isinstance(Bases[class], base))

\* An error handler without the BadArgument branch.
Branch_without_BadArgument(error) ==
    IF isinstance(error, "CommandNotFound") THEN "CommandNotFound"
    ELSE IF isinstance(error, "CommandOnCooldown") THEN "CommandOnCooldown"
    ELSE IF isinstance(error, "MissingRequiredArgument") THEN "MissingRequiredArgument"
    ELSE IF isinstance(error, "CheckFailure") THEN "CheckFailure"
    ELSE "unhandled"

\* The branch of on_command_error an error takes (lines 42-86).
Branch(error) ==
    IF isinstance(error, "CommandNotFound") THEN "CommandNotFound"
    ELSE IF isinstance(error, "CommandOnCooldown") THEN "CommandOnCooldown"
    ELSE IF isinstance(error, "MissingRequiredArgument") THEN "MissingRequiredArgument"
    ELSE IF isinstance(error, "CheckFailure") THEN "CheckFailure"
    ELSE IF isinstance(error, "BadArgument") THEN "BadArgument"
    ELSE "unhandled"

\* on_command_error up to its first await.  The five handled branches send
\* (or do nothing) and return; the last branch suspends at the ctx.send of
\* line 86 with the append and the change of presence still to do.
on_command_error ==
    \E error \in Errors :
        /\ Branch(error) = "unhandled" => Len(last_errors) + ToAppend < MaxErrors
        /\ awaiting' = IF Branch(error) = "unhandled"
                       THEN Append(awaiting, Suspended("on_command_error", error))
                       ELSE awaiting
        /\ last' = Ended("on_command_error",
                         ManagementRequest(None, error, None), Branch(error), <<>>)
        /\ UNCHANGED <<ledger, nextId, clock, attempts, last_errors, presence,
                       extensions>>

\* Lines 87-88: a suspended error handler resumes, appends its entry and
\* calls change_presence.
on_command_error_saves ==
    \E i \in DOMAIN awaiting :
        /\ awaiting[i].handler = "on_command_error"
        /\ last_errors' = Append(last_errors, Entry(awaiting[i].error))
        /\ presence' = runtime_error_activity
        /\ awaiting' = Without(awaiting, i)
        /\ last' = Ended("on_command_error",
                         ManagementRequest(None, awaiting[i].error, None),
                         "saved", <<>>)
        /\ UNCHANGED <<ledger, nextId, clock, attempts, extensions>>

\* +load (lines 125-136).  An unbound target raises UnboundLocalError inside
\* the try; client.load_extension raises when the extension is loaded
\* already or when its setup fails.
load_extension ==
    \E author \in Admins, extension_name \in ExtensionNames,
       cogs \in CrawlOrders, setup_raises \in BOOLEAN :
        LET target_extension == FirstMatch(extension_name, cogs)
            e == IF target_extension = Unbound THEN "UnboundLocalError"
                 ELSE IF target_extension \in Range(extensions)
                 THEN "ExtensionAlreadyLoaded"
                 ELSE IF setup_raises THEN "ExtensionFailed"
                 ELSE "none"
        IN  /\ e # "none" => Len(last_errors) + ToAppend < MaxErrors
            /\ last_errors' = IF e # "none" THEN Append(last_errors, Entry(e))
                              ELSE last_errors
            /\ extensions' = IF e = "none" THEN Append(extensions, target_extension)
                             ELSE extensions
            /\ last' = Ended("load_extension",
                             ManagementRequest(extension_name, None, None),
                             IF e = "none" THEN "loaded" ELSE e, <<>>)
            /\ UNCHANGED <<ledger, nextId, clock, attempts, presence, awaiting>>

\* An unload that refuses nothing.
RefusesUnload_never(target_extension) == FALSE

\* Line 152: target_extension.lower() in 'cogs.management'
RefusesUnload(target_extension) ==
    IsSubstring(Lower(target_extension), ManagementName)

\* +unload (lines 147-161).  An unbound target raises UnboundLocalError at
\* line 152.
unload_extension ==
    \E author \in Admins, extension_name \in ExtensionNames :
        LET target_extension == FirstMatch(extension_name, extensions)
            outcome == IF target_extension = Unbound THEN "UnboundLocalError"
                       ELSE IF RefusesUnload(target_extension) THEN "refused"
                       ELSE IF target_extension \notin Range(extensions)
                       THEN "returned"
                       ELSE "unloaded"
        IN  /\ extensions' = IF outcome = "unloaded"
                             THEN Remove(extensions, target_extension)
                             ELSE extensions
            /\ last' = Ended("unload_extension",
                             ManagementRequest(extension_name, None, None),
                             outcome, <<>>)
            /\ UNCHANGED <<ledger, nextId, clock, attempts, last_errors,
                           presence, awaiting>>

\* Lines 174-182: the extensions a reload names.
ReloadTargets(extension_name, loaded) ==
    IF extension_name = All
    THEN <<ManagementName>> \o Remove(loaded, ManagementName)
    ELSE IF FirstMatch(extension_name, loaded) = Unbound THEN <<>>
    ELSE <<FirstMatch(extension_name, loaded)>>

\* Lines 186-193: client.reload_extension on each target in turn.  It takes
\* the extension out of client.extensions and puts it back, the new module
\* when its setup works and the old one when it raises; it raises
\* ExtensionNotLoaded for a name that is not loaded.
RECURSIVE Reload(_, _, _, _)
Reload(target_extensions, failing, loaded, errors) ==
    IF target_extensions = <<>>
    THEN [extensions |-> loaded, last_errors |-> errors]
    ELSE LET ext == Head(target_extensions)
         IN  IF ext \notin Range(loaded)
             THEN Reload(Tail(target_extensions), failing, loaded,
                         Append(errors, Entry("ExtensionNotLoaded")))
             ELSE Reload(Tail(target_extensions), failing,
                         Append(Remove(loaded, ext), ext),
                         IF ext \in failing
                         THEN Append(errors, Entry("ExtensionFailed"))
                         ELSE errors)

\* +reload (lines 173-195)
reload_extension ==
    \E author \in Admins, extension_name \in ExtensionNames \cup {All},
       failing \in SUBSET CogFiles :
        LET target_extensions == ReloadTargets(extension_name, extensions)
            done == Reload(target_extensions, failing, extensions, last_errors)
        IN  /\ Len(done.last_errors) + ToAppend <= MaxErrors
            /\ extensions' = done.extensions
            /\ last_errors' = done.last_errors
            /\ last' = Ended("reload_extension",
                             ManagementRequest(extension_name, None, None),
                             IF target_extensions = <<>> THEN "returned"
                             ELSE "reloaded", <<>>)
            /\ UNCHANGED <<ledger, nextId, clock, attempts, presence, awaiting>>

\* +cogs (lines 207-214)
print_cogs ==
    \E author \in Admins :
        /\ last' = Ended("print_cogs", NoManagementRequest, "sent", extensions)
        /\ UNCHANGED <<ledger, nextId, clock, attempts, management>>

\* +error (lines 222-245)
error ==
    \E author \in Admins :
        /\ last' = Ended("error", NoManagementRequest,
                         IF last_errors = <<>> THEN "Error log is empty"
                         ELSE "listed",
                         last_errors)
        /\ UNCHANGED <<ledger, nextId, clock, attempts, management>>

\* n arguments of +error clear and +error traceback: none, 0, 1 and -1.
Indexes == {None, Some(0), Some(1), Some(0 - 1)}

\* list.pop(n): the index counted from the end when n is negative;
\* IndexError when it is out of range.
PopIndex(log, n) == IF n < 0 THEN Len(log) + n + 1 ELSE n + 1

\* +error clear up to its first await (lines 251-258): the log is emptied,
\* or one entry is popped, and the handler suspends at its ctx.send with the
\* change of presence still to do.
error_clear ==
    \E author \in Admins, n \in Indexes :
        LET popped == n # None /\ PopIndex(last_errors, n[1]) \in DOMAIN last_errors
            raised == n # None /\ ~popped
        IN  /\ last_errors' = IF n = None THEN <<>>
                              ELSE IF popped
                              THEN Without(last_errors, PopIndex(last_errors, n[1]))
                              ELSE last_errors
            /\ ~raised => Len(awaiting) < MaxErrors
            /\ awaiting' = IF raised THEN awaiting
                           ELSE Append(awaiting, Suspended("error_clear", None))
            /\ last' = Ended("error_clear", ManagementRequest(None, None, n),
                             IF n = None THEN "Error log cleared"
                             ELSE IF popped THEN "Deleted error"
                             ELSE "IndexError", <<>>)
            /\ UNCHANGED <<ledger, nextId, clock, attempts, presence, extensions>>

\* Lines 259-261: a suspended +error clear resumes and calls change_presence.
error_clear_presence ==
    \E i \in DOMAIN awaiting :
        /\ awaiting[i].handler = "error_clear"
        /\ presence' = default_activity
        /\ awaiting' = Without(awaiting, i)
        /\ last' = Ended("error_clear", NoManagementRequest, "presence", <<>>)
        /\ UNCHANGED <<ledger, nextId, clock, attempts, last_errors, extensions>>

\* +error traceback (lines 267-311)
error_traceback ==
    \E author \in Admins, n \in Indexes :
        /\ last' = Ended("error_traceback", ManagementRequest(None, None, n),
                         IF last_errors = <<>> THEN "Error log is empty"
                         ELSE IF n = None THEN "Please specify an error index"
                         ELSE IF n[1] >= Len(last_errors) \/ n[1] < 0
                         THEN "Error index does not exist"
                         ELSE "traceback",
                         <<>>)
        /\ UNCHANGED <<ledger, nextId, clock, attempts, management>>

-----------------------------------------------------------------------------
(* The specification *)

Init ==
    /\ ledger = {}
    /\ nextId = 1
    /\ clock = 0
    /\ attempts = {}
    /\ last = Ended("start", NoRequest, "none", <<>>)
    /\ Constructed

Next ==
    \/ process_transaction
    \/ bank
    \/ bank_add
    \/ bank_delete
    \/ bank_confirm_transaction
    \/ bank_history
    \/ account
    \/ account_add
    \/ account_history
    \/ account_send_money

Spec == Init /\ [][Next]_vars

-----------------------------------------------------------------------------
(* The Management cog on its own, on a bank that is left alone.  +stop     *)
(* closes the client and ends the behaviour, so it is no step.             *)

\* The error log and the presence: the listeners and the error commands.
NextErrors ==
    \/ on_ready
    \/ on_command_error
    \/ on_command_error_saves
    \/ error
    \/ error_clear
    \/ error_clear_presence
    \/ error_traceback

SpecErrors == Init /\ [][NextErrors]_vars

\* The extensions: the commands that load, unload, reload and list them.
NextExtensions ==
    \/ on_ready
    \/ load_extension
    \/ unload_extension
    \/ reload_extension
    \/ print_cogs

SpecExtensions == Init /\ [][NextExtensions]_vars

-----------------------------------------------------------------------------
(* The parsing of transaction strings: deposits of the bank into itself *)

\* Strings that pass lines 77-84 and whose every entry is a number and a
\* currency letter.
ParseStrings ==
    { <<"2", "g", ",", "5", "s">>,                         \* 2g,5s
      <<"2", "g", ",", "1", "g">>,                         \* 2g,1g
      <<"2", "g", ",", "5", "s", ",", "1", "g">>,          \* 2g,5s,1g
      <<"0", "g">>,                                        \* 0g
      <<"0", "g", ",", "0", "s">>,                         \* 0g,0s
      <<"+", "3", "p", ",", "1", "2", "c">>,               \* +3p,12c
      <<"-", "1", "e">> }                                  \* -1e

\* process_transaction with sender_id = receiver_id = 0, on a store that
\* works.
bank_deposit ==
    Call(ParseStrings, {"Donation"}, {BANK}, {BANK}, BOOLEAN, {"ok"}, MaxId)

NextParsing ==
    \/ bank_deposit
    \/ bank

SpecParsing == Init /\ [][NextParsing]_vars

-----------------------------------------------------------------------------
(* The paging of print_log: history commands on ledgers of deposits *)

\* The largest _id of the ledgers the history commands are applied to.
MaxLogId == 4

\* The row process_transaction('2g,-5s', 'Donation', account_nr, account_nr,
\* True) leaves with the given _id.
LogRow(id, account_nr) ==
    ProcessTransaction(1, <<"2", "g", ",", "-", "5", "s">>, "Donation",
                       account_nr, account_nr, TRUE, id, 0, 0, "ok").rows[1]

\* The ledgers such deposits and deletes leave: any of the _ids, each row
\* with the bank or the user as its account.
LogLedgers ==
    UNION { { {LogRow(id, account_nr[id]) : id \in kept}
                : account_nr \in [kept -> Accounts] }
            : kept \in SUBSET (1..MaxLogId) }

InitHistory ==
    /\ ledger \in LogLedgers
    /\ nextId = MaxLogId + 1
    /\ clock = 0
    /\ attempts = {}
    /\ last = Ended("start", NoRequest, "none", <<>>)
    /\ Constructed

\* start and num arguments: none, some, all and more than all of the rows,
\* and the default num of 10.
PageStarts == 0..MaxLogId
PageNums == (0..MaxLogId) \cup {10}

bank_history_page == \E author \in Admins : Log(PageStarts, PageNums, Accounts)

account_history_page == \E author \in Users : Log(PageStarts, PageNums, {author})

NextHistory ==
    \/ bank_history_page
    \/ account_history_page

SpecHistory == InitHistory /\ [][NextHistory]_vars

-----------------------------------------------------------------------------
(* Transfers of one copper from the user to the bank, by any number of       *)
(* handlers in any order, with confirms and balance reads in between         *)

\* The number of transfers of one behaviour.
MaxTransfers == 3

\* process_transaction('1c', 'Donation', sender_id=1, receiver_id=0, confirm)
\* on a store that works.  The handler has no await between its first read
\* of the arguments and its last write, so handlers that run concurrently
\* take effect one after the other, in any order.
copper_transfer ==
    Call({<<"1", "c">>}, {"Donation"}, Users, {BANK}, BOOLEAN, {"ok"},
         2 * MaxTransfers)

confirm_transfer == ConfirmOf(1..(2 * MaxTransfers))

NextTransfers ==
    \/ copper_transfer
    \/ confirm_transfer
    \/ bank

SpecTransfers == Init /\ [][NextTransfers]_vars

-----------------------------------------------------------------------------
(* Vocabulary of the properties *)

Amount(r, c) == OrZero(getattr(r, c))
NonZero(r) == \E c \in Range(CURRENCIES) : Amount(r, c) # 0

\* The last handler was a process_transaction that reported success.
Added == last.op = "process_transaction" /\ last.outcome = "TransactionAdded"

\* The rows the last handler created, first row first.
CreatedRow(i) == Row(ledger, last.created[i])

\* The pairs both rows of which are in the ledger.
WholePairs ==
    {a \in attempts : a.mirror # 0 /\ {a.primary, a.mirror} \subseteq Ids(ledger)}

\* The sum of a currency over a set of rows, one row at a time.
Total(rows, c) ==
    LET sum[S \in SUBSET rows] ==
            IF S = {} THEN 0
            ELSE LET r == CHOOSE x \in S : TRUE
                 IN  Amount(r, c) + sum[S \ {r}]
    IN  sum[rows]

Counted(acct) == {r \in ledger : r.confirmed = TRUE /\ r.receiver_id = acct}

-----------------------------------------------------------------------------
(* C1 *)

\* C1: right after a successful process_transaction the ledger has gained two
\* rows when sender and receiver differ, and the two rows carry the same
\* description, timestamp, actor and confirmed value; it has gained one row
\* when sender and receiver are the same account.
C1_PairMatches ==
    Added =>
        LET first == CreatedRow(1)
        IN  IF first.sender_id # first.receiver_id
            THEN /\ Len(last.created) = 2
                 /\ CreatedRow(2).description = first.description
                 /\ CreatedRow(2).date = first.date
                 /\ CreatedRow(2).user_id = first.user_id
                 /\ CreatedRow(2).confirmed = first.confirmed
            ELSE Len(last.created) = 1

-----------------------------------------------------------------------------
(* C2 *)

\* C2: the second row of a transaction between two accounts has the roles of
\* the first swapped (its receiver is the first row's sender, its sender the
\* first row's receiver) and every amount negated.
C2_MirrorSwapsRoles ==
    (Added /\ Len(last.created) = 2) =>
        LET first  == CreatedRow(1)
            second == CreatedRow(2)
        IN  /\ second.receiver_id = first.sender_id
            /\ second.sender_id = first.receiver_id
            /\ \A c \in Range(CURRENCIES) : Amount(second, c) = 0 - Amount(first, c)

-----------------------------------------------------------------------------
(* C3 *)

\* The validation messages process_transaction sends itself: a missing
\* argument, a character outside the allowed set, an entry that does not end
\* in a currency letter.
ValidationErrors == {"MissingField", "InvalidCharacter", "InvalidCurrency"}

\* C3: a process_transaction that ends in a validation error leaves the set
\* of rows (and with it every balance) as it was before the call.
C3_ValidationBeforeWrite ==
    [][(last'.op = "process_transaction" /\ last'.outcome \in ValidationErrors)
          => ledger' = ledger]_vars

-----------------------------------------------------------------------------
(* C4 *)

\* C4: for every account and currency, get_balance is the sum of the amounts
\* of exactly the confirmed rows whose receiver is the account (zero when
\* there is none), whatever pending rows the ledger holds; and the balance
\* the bank command sends is that sum for account 0.
C4_BalanceIsConfirmedSum ==
    /\ \A acct \in Accounts, c \in Range(CURRENCIES) :
           get_balance(ledger, acct)[c] = Total(Counted(acct), c)
    /\ last.op = "bank" =>
           \A c \in Range(CURRENCIES) : last.reply[c] = Total(Counted(BANK), c)

\* The bank command has shown a balance that is not zero while the ledger
\* holds a pending row of the bank with an amount.
C4_Witness ==
    /\ last.op = "bank"
    /\ \E c \in Range(CURRENCIES) : last.reply[c] # 0
    /\ \E r \in ledger : r.receiver_id = BANK /\ r.confirmed = FALSE /\ NonZero(r)

-----------------------------------------------------------------------------
(* C5 *)

\* C5: conservation.  For every pair both rows of which are confirmed, the
\* balances of the sender and of the receiver add up, in every currency, to
\* what they add up to without the pair.
C5_Conservation ==
    \A a \in WholePairs :
        LET first  == Row(ledger, a.primary)
            second == Row(ledger, a.mirror)
            before == ledger \ {first, second}
        IN  (first.confirmed /\ second.confirmed) =>
                \A c \in Range(CURRENCIES) :
                    get_balance(ledger, first.sender_id)[c]
                      + get_balance(ledger, first.receiver_id)[c]
                    = get_balance(before, first.sender_id)[c]
                      + get_balance(before, first.receiver_id)[c]

\* A confirm has just made both rows of a pair with amounts confirmed.
C5_Witness ==
    /\ last.op = "bank_confirm_transaction"
    /\ last.outcome = "confirmed"
    /\ \E a \in WholePairs :
           /\ Row(ledger, a.primary).confirmed
           /\ Row(ledger, a.mirror).confirmed
           /\ NonZero(Row(ledger, a.primary))
           /\ get_balance(ledger, Row(ledger, a.primary).receiver_id)["gold"] # 0

-----------------------------------------------------------------------------
(* C6 *)

\* The rows the last handler read, when it was a read: the rows a history
\* command listed, the rows the bank command summed.
Observed ==
    IF last.op = "print_log" THEN Range(last.reply)
    ELSE IF last.op = "bank" THEN Counted(BANK)
    ELSE {}

\* C6: no balance or history read observes exactly one row of a pair whose
\* creation was attempted as a pair.  The two rows of a pair are created in
\* one step, so a row is seen without its partner, and without a delete having
\* removed the partner, exactly when it is the first row of an attempt whose
\* second row was never created.
C6_PairVisibleTogether ==
    \A r \in Observed :
        \A a \in attempts : a.primary = r._id => a.mirror # 0

-----------------------------------------------------------------------------
(* C7 *)

\* C7: when persisting the second row fails, the first row is deleted before
\* the error is reported: a process_transaction that ends in a storage error
\* leaves the ledger as it was before the call.
C7_RollbackOnStorageFailure ==
    [][(last'.op = "process_transaction" /\ last'.outcome = "StorageFailure")
          => ledger' = ledger]_vars

-----------------------------------------------------------------------------
(* C8 *)

\* C8: the bank path creates confirmed rows that count at once.  A bank add
\* ends as a creation ends: with rows created, all of them confirmed, or with
\* a validation error or a storage error.
C8_BankPathCreatesConfirmed ==
    last.op = "bank_add" =>
        \/ /\ last.outcome = "TransactionAdded"
           /\ last.created # <<>>
           /\ \A i \in DOMAIN last.created : CreatedRow(i).confirmed
        \/ last.outcome \in ValidationErrors \cup {"StorageFailure"}

-----------------------------------------------------------------------------
(* C9 *)

\* C9: in every step, a row that stays in the ledger and was confirmed stays
\* confirmed; a confirmed flag changes only in a confirm; and a confirmed row
\* leaves the ledger only in a delete.
C9_ConfirmedIsStable ==
    [][\A r \in ledger :
          IF r._id \in Ids(ledger')
          THEN LET q == Row(ledger', r._id)
               IN  /\ r.confirmed => q.confirmed
                   /\ q.confirmed # r.confirmed
                        => last'.op = "bank_confirm_transaction"
          ELSE r.confirmed => last'.op = "bank_delete"]_vars

\* A confirm has acted on one row of a pair that was created pending: the
\* two rows of the pair, created with the same flag, now differ in it.
C9_Witness ==
    /\ last.op = "bank_confirm_transaction"
    /\ last.outcome = "confirmed"
    /\ \E a \in WholePairs :
           Row(ledger, a.primary).confirmed # Row(ledger, a.mirror).confirmed

-----------------------------------------------------------------------------
(* C10 *)

\* C10: a creation that is not privileged (confirm is false) and whose
\* string has a negative amount creates no row: right after a
\* process_transaction that left rows, a first row that is pending has no
\* negative amount.
C10_NoNegativeUnprivileged ==
    (last.op = "process_transaction" /\ last.created # <<>>) =>
        (CreatedRow(1).confirmed = FALSE =>
            \A c \in Range(CURRENCIES) : Amount(CreatedRow(1), c) >= 0)

-----------------------------------------------------------------------------
(* Vocabulary of the claims about transaction strings *)

\* The entries of a string, and the denomination letter an entry ends in.
Entries(s) == Split(s)
Letter(entry) == entry[Len(entry)]

\* The string is one or more entries, each an optional sign, one or more
\* digits and one of the five letters.
WellFormed(s) ==
    /\ s # NoString
    /\ \A i \in DOMAIN Entries(s) :
           LET entry  == Entries(s)[i]
               number == IF entry # <<>> /\ Head(entry) \in {"+", "-"}
                         THEN SubSeq(entry, 2, Len(entry) - 1)
                         ELSE SubSeq(entry, 1, Len(entry) - 1)
           IN  /\ Len(entry) >= 2
               /\ Letter(entry) \in {"p", "g", "e", "s", "c"}
               /\ number # <<>>
               /\ \A k \in DOMAIN number : number[k] \in Digits

\* The string names a denomination letter in two of its entries.
NamesTwice(s) ==
    \E i, j \in DOMAIN Entries(s) :
        i < j /\ Letter(Entries(s)[i]) = Letter(Entries(s)[j])

\* The last handler was a process_transaction handed a description and a
\* well-formed string.
Parsed ==
    /\ last.op = "process_transaction"
    /\ last.request.description # NoDescription
    /\ WellFormed(last.request.transaction_string)

-----------------------------------------------------------------------------
(* C11 *)

\* C11: a string that names the same denomination letter in two entries is
\* rejected and no row is created: a process_transaction handed such a
\* string does not report success and leaves no row behind.
C11_DuplicateDenominationRejected ==
    (Parsed /\ NamesTwice(last.request.transaction_string)) =>
        /\ last.outcome # "TransactionAdded"
        /\ last.created = <<>>

-----------------------------------------------------------------------------
(* C12 *)

\* Every digit of every entry is a zero.
ParsesToZero(s) ==
    \A i \in DOMAIN Entries(s) :
        \A k \in DOMAIN Entries(s)[i] :
            Entries(s)[i][k] \in Digits => Entries(s)[i][k] = "0"

\* C12: a string that parses to zero in every denomination is rejected and
\* no row is created, so every row of the ledger has an amount that is not
\* zero in at least one denomination.
C12_AllZeroRejected ==
    /\ (Parsed /\ ParsesToZero(last.request.transaction_string)) =>
           /\ last.outcome # "TransactionAdded"
           /\ last.created = <<>>
    /\ \A r \in ledger : NonZero(r)

-----------------------------------------------------------------------------
(* C13 *)

\* The letter of each denomination.
LetterOf ==
    [platinum |-> "p", gold |-> "g", electrum |-> "e", silver |-> "s",
     copper |-> "c"]

\* The number a run of digits denotes, read from the left.
RECURSIVE Horner(_, _)
Horner(value, digits) ==
    IF digits = <<>> THEN value
    ELSE Horner(10 * value + DigitValue(Head(digits)), Tail(digits))

\* The signed integer of an entry: an entry without a sign is positive.
SignedValue(entry) ==
    LET number == SubSeq(entry, 1, Len(entry) - 1)
    IN  IF Head(number) = "-" THEN 0 - Horner(0, Tail(number))
        ELSE IF Head(number) = "+" THEN Horner(0, Tail(number))
        ELSE Horner(0, number)

\* The mapping a string with distinct denominations denotes: the signed
\* integer of the entry that names the denomination, None when none does.
Mapping(s) ==
    [c \in Range(CURRENCIES) |->
        IF \E i \in DOMAIN Entries(s) : Letter(Entries(s)[i]) = LetterOf[c]
        THEN Some(SignedValue(
                 Entries(s)[CHOOSE i \in DOMAIN Entries(s) :
                                Letter(Entries(s)[i]) = LetterOf[c]]))
        ELSE None]

\* C13: a process_transaction handed a well-formed string with distinct
\* denominations, on a store that works, reports success, and its first row
\* has for every denomination the string names the signed integer of that
\* entry; a denomination the string does not name is zero in the row and in
\* the balance the row gives its receiver.
C13_AmountsAreParsedMapping ==
    (/\ Parsed
     /\ ~NamesTwice(last.request.transaction_string)
     /\ last.outcome # "StorageFailure") =>
        /\ Added
        /\ last.created # <<>>
        /\ \A c \in Range(CURRENCIES) :
               LET wanted == Mapping(last.request.transaction_string)[c]
                   row    == CreatedRow(1)
               IN  /\ wanted # None => getattr(row, c) = wanted
                   /\ Amount(row, c) = OrZero(wanted)
                   /\ row.confirmed =>
                          get_balance({row}, row.receiver_id)[c] = OrZero(wanted)

\* '+3p,12c' has been added: the row has platinum 3 and copper 12 and
\* nothing in the other three denominations.
C13_Witness ==
    /\ Parsed
    /\ Added
    /\ ~NamesTwice(last.request.transaction_string)
    /\ Len(Entries(last.request.transaction_string)) = 2
    /\ getattr(CreatedRow(1), "platinum") = Some(3)
    /\ getattr(CreatedRow(1), "copper") = Some(12)
    /\ \A c \in {"gold", "electrum", "silver"} : getattr(CreatedRow(1), c) = None

-----------------------------------------------------------------------------
(* C14 *)

\* C14: a process_transaction handed an empty or missing description, or an
\* empty or missing transaction string, ends with the missing-field message
\* and leaves the ledger as it was.
C14_MissingFieldBeforeWrite ==
    [][(/\ last'.op = "process_transaction"
        /\ \/ last'.request.description = NoDescription
           \/ last'.request.transaction_string = NoString)
          => (last'.outcome = "MissingField" /\ ledger' = ledger)]_vars

\* A call with a transaction string and no description has ended with the
\* missing-field message on a ledger that holds rows.
C14_Witness ==
    /\ last.op = "process_transaction"
    /\ last.request.description = NoDescription
    /\ last.request.transaction_string # NoString
    /\ last.outcome = "MissingField"
    /\ ledger # {}

-----------------------------------------------------------------------------
(* Vocabulary of the claims about confirm and delete *)

\* The step is a handler of the given command, and the id it was handed.
Handles(op) == last'.op = op
HandedId == last'.request.transaction_id[1]

\* The handler before this one was the same command with the same arguments.
Repeats == last.op = last'.op /\ last.request = last'.request

-----------------------------------------------------------------------------
(* C15 *)

\* C15: a confirm of an id a row has ends without an error and leaves that
\* row confirmed with every other column as it was; a confirm that repeats
\* the confirm before it leaves the ledger as the first one left it.
C15_ConfirmIdempotent ==
    [][(Handles("bank_confirm_transaction") /\ HandedId \in Ids(ledger)) =>
          /\ last'.outcome = "confirmed"
          /\ HandedId \in Ids(ledger')
          /\ Row(ledger', HandedId) = [Row(ledger, HandedId) EXCEPT !.confirmed = TRUE]
          /\ Repeats => ledger' = ledger]_vars

\* A confirm has ended without an error on a row that is confirmed, and a
\* further confirm of the same id would leave the ledger as it is.
C15_Witness ==
    /\ last.op = "bank_confirm_transaction"
    /\ last.outcome = "confirmed"
    /\ last.request.transaction_id[1] \in Ids(ledger)
    /\ Row(ledger, last.request.transaction_id[1]).confirmed
    /\ Confirm(ledger, last.request.transaction_id[1]) = ledger
    /\ ConfirmOutcome(ledger, last.request.transaction_id[1]) = "confirmed"

-----------------------------------------------------------------------------
(* C16 *)

\* C16: a confirm of an id no row has (never created, or deleted since) ends
\* in NoResultFound, sends no confirmation, and leaves every row as it was.
C16_ConfirmOfAbsentFails ==
    [][(Handles("bank_confirm_transaction") /\ HandedId \notin Ids(ledger)) =>
          /\ last'.outcome = "NoResultFound"
          /\ ledger' = ledger]_vars

\* A confirm of the id of a deleted row has ended in NoResultFound on a
\* ledger that holds another row.
C16_Witness ==
    /\ last.op = "bank_confirm_transaction"
    /\ last.outcome = "NoResultFound"
    /\ last.request.transaction_id[1] < nextId
    /\ last.request.transaction_id[1] \notin Ids(ledger)
    /\ ledger # {}

-----------------------------------------------------------------------------
(* C17 *)

\* C17: a delete never ends in an error.  A delete of an id no row has leaves
\* the ledger as it was; a delete of an id a row has removes that row and no
\* other; a delete that repeats the delete before it changes nothing.
C17_DeleteIdempotent ==
    [][Handles("bank_delete") =>
          /\ last'.outcome = "Success"
          /\ ledger' \subseteq ledger
          /\ Ids(ledger') = Ids(ledger) \ {HandedId}
          /\ HandedId \notin Ids(ledger) => ledger' = ledger
          /\ Repeats => ledger' = ledger]_vars

\* A delete has removed a row from a ledger that still holds another row.
C17_Witness ==
    /\ last.op = "bank_delete"
    /\ last.outcome = "Success"
    /\ last.request.transaction_id[1] < nextId
    /\ last.request.transaction_id[1] \notin Ids(ledger)
    /\ ledger # {}

-----------------------------------------------------------------------------
(* C18 *)

\* C18: a confirm and a delete of an id change the row with that id and no
\* other: every other row, the other row of a pair among them, is in the
\* ledger after the step exactly when it was before, with every column as it
\* was.
C18_OnlyTheNamedRow ==
    [][(Handles("bank_confirm_transaction") \/ Handles("bank_delete")) =>
          /\ \A r \in ledger : r._id # HandedId => r \in ledger'
          /\ \A r \in ledger' : r._id # HandedId => r \in ledger]_vars

\* A delete has removed the first row of a pending pair with amounts, and the
\* second row of the pair is in the ledger, still pending.
C18_Witness ==
    /\ last.op = "bank_delete"
    /\ \E a \in attempts :
           /\ a.primary = last.request.transaction_id[1]
           /\ a.primary \notin Ids(ledger)
           /\ a.mirror \in Ids(ledger)
           /\ Row(ledger, a.mirror).confirmed = FALSE
           /\ NonZero(Row(ledger, a.mirror))

-----------------------------------------------------------------------------
(* Vocabulary of the claims about history *)

\* The last handler was a history command; what it was handed.
Logged == last.op = "print_log"
LoggedStart == last.request.start[1]
LoggedNum == last.request.num[1]
LoggedAccount == last.request.account_nr[1]

\* The rows of the account, and the rank of a row among them, the newest
\* row having rank 1.
Matching == {r \in ledger : r.receiver_id = LoggedAccount}
Rank(r) == Cardinality({q \in Matching : q._id > r._id}) + 1

-----------------------------------------------------------------------------
(* C19 *)

-----------------------------------------------------------------------------
(* C20 *)

\* C20: history(account, start, num) returns exactly the rows ranked
\* start+1 .. start+num among the rows whose receiver is the account, each
\* once: never more than num rows, no row when num is 0 or start is not less
\* than the number of rows of the account, never a row of another account.
C20_PageIsRankWindow ==
    Logged =>
        /\ Range(last.reply) =
               {r \in Matching : LoggedStart + 1 <= Rank(r)
                                 /\ Rank(r) <= LoggedStart + LoggedNum}
        /\ Cardinality(Range(last.reply)) = Len(last.reply)
        /\ Len(last.reply) <= LoggedNum
        /\ (LoggedNum = 0 \/ LoggedStart >= Cardinality(Matching))
               => last.reply = <<>>
        /\ \A i \in DOMAIN last.reply : last.reply[i].receiver_id = LoggedAccount

\* A history command has returned the one row of rank 2 of an account that
\* has three rows, while the ledger holds a row of the other account.
C20_Witness ==
    /\ Logged
    /\ LoggedStart = 1
    /\ LoggedNum = 1
    /\ Cardinality(Matching) = 3
    /\ Len(last.reply) = 1
    /\ Rank(last.reply[1]) = 2
    /\ ledger # Matching

-----------------------------------------------------------------------------
(* C21 *)

\* C21: no lost updates.  When N transfers of one copper from a user to the
\* bank have been created, by handlers in any order, every transfer has left
\* two rows of its own with _ids no other row has; and once all rows are
\* confirmed the copper balance of the bank is exactly N, also as the bank
\* command shows it.
C21_NoLostUpdates ==
    LET N == Cardinality(attempts)
    IN  /\ \A a \in attempts : {a.primary, a.mirror} \subseteq Ids(ledger)
        /\ \A a, b \in attempts :
               a # b => {a.primary, a.mirror} \cap {b.primary, b.mirror} = {}
        /\ Cardinality(ledger) = 2 * N
        /\ Cardinality(Ids(ledger)) = 2 * N
        /\ (\A r \in ledger : r.confirmed) =>
               /\ get_balance(ledger, BANK)["copper"] = N
               /\ last.op = "bank" => last.reply["copper"] = N

\* The bank command has shown a copper balance of MaxTransfers after that
\* many transfers, with every row confirmed.
C21_Witness ==
    /\ last.op = "bank"
    /\ Cardinality(attempts) = MaxTransfers
    /\ \A r \in ledger : r.confirmed
    /\ last.reply["copper"] = MaxTransfers
    /\ \A a \in attempts :
           Amount(Row(ledger, a.primary), "copper") = 1

-----------------------------------------------------------------------------
(* C22 *)

\* The five classes on_command_error answers itself, with the subclass of
\* one of them the bot raises.
HandledErrors ==
    { "CommandNotFound", "CommandOnCooldown", "MissingRequiredArgument",
      "CheckFailure", "NotOwner", "BadArgument" }

\* The suspended error handlers, as a bag would count them.
Saving(e) ==
    Cardinality({i \in DOMAIN awaiting :
                    awaiting[i] = Suspended("on_command_error", e)})

\* C22: on_command_error leaves the error log and the presence as they are
\* for an error of the five handled classes, and is then done.  For every
\* other error it suspends once, and when it resumes it appends one entry
\* for that error to the end of the log, every entry before it unchanged and
\* in its place, and sets the presence to the runtime-error activity.
C22_ErrorsPartitioned ==
    [][Handles("on_command_error") =>
          LET e == last'.request.error
          IN  IF e \in HandledErrors
              THEN /\ last'.outcome = e \/ last'.outcome = Bases[e]
                   /\ UNCHANGED <<last_errors, presence, awaiting>>
              ELSE \/ /\ last'.outcome = "unhandled"
                      /\ UNCHANGED <<last_errors, presence>>
                      /\ awaiting' = Append(awaiting, Suspended("on_command_error", e))
                   \/ /\ last'.outcome = "saved"
                      /\ Saving(e) >= 1
                      /\ Len(awaiting') = Len(awaiting) - 1
                      /\ Len(last_errors') = Len(last_errors) + 1
                      /\ SubSeq(last_errors', 1, Len(last_errors)) = last_errors
                      /\ last_errors'[Len(last_errors')].error = e
                      /\ presence' = runtime_error_activity]_vars

\* An error handler has appended a second entry to the log, behind the
\* entry of another error, and the presence shows the runtime error.
C22_Witness ==
    /\ last.op = "on_command_error"
    /\ last.outcome = "saved"
    /\ Len(last_errors) = 2
    /\ last_errors[1].error # last_errors[2].error
    /\ last_errors[2].error = last.request.error
    /\ presence = runtime_error_activity

-----------------------------------------------------------------------------
(* C23 *)

\* C23: the extension of the Management cog is loaded in every state that
\* load, unload and reload commands reach; an unload takes at most one
\* extension out and adds none, and when the extension it found is the
\* cog's own it refuses and takes none out.
C23_ManagementStaysLoaded ==
    /\ [](ManagementName \in Range(extensions))
    /\ [][Handles("unload_extension") =>
             /\ Range(extensions') \subseteq Range(extensions)
             /\ Cardinality(Range(extensions) \ Range(extensions')) <= 1
             /\ FirstMatch(last'.request.extension_name, extensions) = ManagementName
                    => (last'.outcome = "refused" /\ extensions' = extensions)]_vars

\* An unload has been refused when every other extension was unloaded.
C23_Witness ==
    /\ last.op = "unload_extension"
    /\ last.outcome = "refused"
    /\ extensions = <<ManagementName>>

=============================================================================
